---- MODULE Spec2Model ----
(***************************************************************************)
(* FSRS scheduling engine of the English dictation application.            *)
(*                                                                         *)
(* Two programs run the engine: the command line trainer (dictation.py,    *)
(* run_learning_session -> grade_from_attempts -> fsrs_schedule) keeps a   *)
(* Card object per word, and the web server (server.py,                    *)
(* api_session_complete) keeps a Progress row per (user, book, word).      *)
(*                                                                         *)
(* Python floats are modelled as fixed-point integers with Scale units per *)
(* 1.0; every arithmetic operation rounds its result to the nearest unit,  *)
(* as every float operation rounds to the nearest representable value.     *)
(* Instants are whole ticks, TicksPerDay ticks to a day.                   *)
(*                                                                         *)
(* Besides the review of one word (Spec) the module holds the selection of *)
(* the cards of a session (SelSpec), concurrent completions of one word    *)
(* (ConcSpec), the pure functions on sampled inputs (FnSpec), the stores   *)
(* that outlive a session, the progress file of the trainer and the        *)
(* Progress and History tables of the server with their migrations         *)
(* (StoreSpec), and the round counter of a guided conversation (ConvSpec). *)
(***************************************************************************)
EXTENDS Integers, Sequences, FiniteSets, TLC

VARIABLES engine, now, card, progress, ev, deck, reqs, out, file, table, history, conv

vars == <<engine, now, card, progress, ev, deck, reqs, out, file, table, history, conv>>

----------------------------------------------------------------------------
(* Bounds of the model *)

\* reviews of the word per behaviour
MaxReps == 3
\* latest review instant that is explored, in ticks after the due instant
MaxLate == 2

----------------------------------------------------------------------------
(* Representation of Python values *)

\* fixed-point units per 1.0 of a Python float
Scale == 1000
\* units per 1.0 inside Ln and Exp (guard digits, rounded away on return)
Fine == 100000
\* ticks in timedelta(days=1)
TicksPerDay == 2

\* Optional[...] : None is the empty sequence, a value v is <<v>>
None == <<>>
Some(v) == <<v>>
IsNone(o) == o = <<>>
Get(o) == o[1]

\* n / d rounded to the nearest integer (halves upwards), d > 0
RDiv(n, d) == (n + (d \div 2)) \div d

\* float product a * b, split so that the intermediate stays in range
FMul(a, b) ==
    LET ah == a \div Scale
        al == a % Scale
    IN  ah * b + RDiv(al * b, Scale)

\* float quotient a / b, b > 0
FDiv(a, b) ==
    LET q == a \div b
        m == a % b
    IN  q * Scale + RDiv(m * Scale, b)

Max(a, b) == IF a >= b THEN a ELSE b
Min(a, b) == IF a <= b THEN a ELSE b

\* 2^n for n >= 0
RECURSIVE Pow2(_)
Pow2(n) == IF n <= 0 THEN 1 ELSE 2 * Pow2(n - 1)

\* math.log(2) in Fine units
Ln2Fine == 69315

\* the exponent k with x * 2^(-k) in [0.75, 1.5) * Scale, x > 0
RECURSIVE Log2Up(_, _)
Log2Up(x, k) == IF 2 * x >= 3 * Scale * Pow2(k) THEN Log2Up(x, k + 1) ELSE k
RECURSIVE Log2Down(_, _)
Log2Down(x, k) == IF 4 * x * Pow2(k) < 3 * Scale THEN Log2Down(x, k + 1) ELSE k

\* z + z^3/3 + z^5/5 + z^7/7, as z * (1 + z2/3 + z2^2/5 + z2^3/7) with z2 = z^2
RECURSIVE AtanhSum(_, _, _, _)
AtanhSum(z2, acc, pw, k) ==
    IF k > 7 THEN acc
    ELSE AtanhSum(z2, acc + RDiv(pw, k), RDiv(pw * z2, Fine), k + 2)
AtanhFine(z) == RDiv(z * AtanhSum(RDiv(z * z, Fine), 0, Fine, 1), Fine)

\* ln(m * 2^k) = k ln 2 + 2 atanh((m - 1) / (m + 1)), m in Fine units
LnMantissa(m, k) ==
    k * Ln2Fine + 2 * AtanhFine(RDiv((m - Fine) * 10000, RDiv(m + Fine, 10)))
LnUp(x, k) == LnMantissa(RDiv(x * (Fine \div Scale), Pow2(k)), k)
LnDown(x, k) == LnMantissa(x * Pow2(k) * (Fine \div Scale), 0 - k)

\* math.log(x) in Fine units, for x > 0 in Scale units
LnFine(x) ==
    IF x <= 0 THEN 0
    ELSE IF 2 * x >= 3 * Scale THEN LnUp(x, Log2Up(x, 0))
    ELSE LnDown(x, Log2Down(x, 0))

\* 1 + f + f^2/2 + ... + f^6/720 in Fine units
RECURSIVE ExpTaylor(_, _, _, _)
ExpTaylor(f, acc, term, k) ==
    IF k > 6 THEN acc
    ELSE ExpTaylor(f, acc + term, RDiv(term * f, (k + 1) * Fine), k + 1)

\* e * 2^n, from Fine units to Scale units
ExpScale(e, n) ==
    IF n >= 0 THEN RDiv(e * Pow2(n), Fine \div Scale)
    ELSE IF n < 0 - 24 THEN 0
    ELSE RDiv(e, (Fine \div Scale) * Pow2(0 - n))
ExpSplit(y, n) == ExpScale(ExpTaylor(y - n * Ln2Fine, Fine, y - n * Ln2Fine, 1), n)

\* math.exp(y) in Scale units, for y in Fine units: y = n ln 2 + f
ExpFine(y) == ExpSplit(y, RDiv(y, Ln2Fine))

\* pow(x, p) for a float x > 0 and a float exponent p (both in Scale units)
PowLn(l, p) == ExpFine((p \div Scale) * l + RDiv((p % Scale) * l, Scale))
Pow(x, p) == PowLn(LnFine(x), p)

----------------------------------------------------------------------------
(* Dates *)

\* datetime.isoformat(): the text "<date>T<time of day>", kept as its two parts
IsoFormat(t) == [date |-> t \div TicksPerDay, time |-> t % TicksPerDay]
\* datetime.fromisoformat()
FromIsoFormat(str) == str.date * TicksPerDay + str.time
\* timedelta.days of the difference a - b: whole days, rounded towards minus infinity
DeltaDays(a, b) == (a - b) \div TicksPerDay
\* mutant: the interval added as ticks instead of days
PlusDays_mut(t, n) == t + n
\* t + timedelta(days=n)
PlusDays(t, n) == t + n * TicksPerDay

----------------------------------------------------------------------------
(* FSRS parameters: FSRS_W[4] .. FSRS_W[16], in Scale units *)

W4 == 4930
W5 == 940
W6 == 860
W7 == 10
W8 == 1490
W9 == 140
W10 == 940
W11 == 2180
W12 == 50
W13 == 340
W14 == 1260
W15 == 290
W16 == 2610
\* the retrievability base 0.9 and the interval cap of next_interval
RetentionBase == 900
IntervalCap == 365

\* pow(2.71828, x): ln 2.71828 = 0.9999993, which is 1.00000 in Fine units
PowE(x) == ExpFine(x * (Fine \div Scale))

\* mutant: the upper clamp is missing
Clamp110_mut(x) == Max(1 * Scale, x)
\* max(1, min(10, x)) on floats
Clamp110(x) == Max(1 * Scale, Min(10 * Scale, x))

init_difficulty(grade) == Clamp110(W4 - (grade - 3) * W5)

\* mutant: the standard FSRS initial stabilities FSRS_W[grade - 1]
init_stability_mut(grade) ==
    CASE grade = 1 -> 400
      [] grade = 2 -> 600
      [] grade = 3 -> 2400
      [] grade = 4 -> 5800
      [] OTHER -> 400

init_stability(grade) ==
    CASE grade = 1 -> 1 * Scale
      [] grade = 2 -> 3 * Scale
      [] grade = 3 -> 7 * Scale
      [] grade = 4 -> 14 * Scale
      [] OTHER -> 1 * Scale

next_difficulty(d, grade) ==
    Clamp110(FMul(W7, init_difficulty(3)) + FMul(Scale - W7, d - W6 * (grade - 3)))

\* defined for s > 0 only: pow(0.0, -0.14) raises ZeroDivisionError
next_recall_stability(d, s, r, grade) ==
    FMul(s, Scale +
        FMul(FMul(FMul(FMul(FMul(PowE(W8), 11 * Scale - d),
                            Pow(s, 0 - W9)),
                       PowE(FMul(W10, Scale - r)) - Scale),
                  IF grade = 2 THEN W15 ELSE Scale),
             IF grade = 4 THEN W16 ELSE Scale))

\* mutant: pow(s, W[13]) - 1 instead of pow(s + 1, W[13]) - 1
next_forget_stability_mut(d, s, r) ==
    FMul(FMul(FMul(W11, Pow(d, 0 - W12)),
              Pow(s, W13) - Scale),
         PowE(FMul(W14, Scale - r)))

next_forget_stability(d, s, r) ==
    FMul(FMul(FMul(W11, Pow(d, 0 - W12)),
              Pow(s + Scale, W13) - Scale),
         PowE(FMul(W14, Scale - r)))

\* next_recall_stability and next_forget_stability of migrate_fsrs_fix.py:
\* the same formulas with a floor of 1.0
next_recall_stability_fix(d, s, r, grade) ==
    Max(1 * Scale, next_recall_stability(d, s, r, grade))
next_forget_stability_fix(d, s, r) ==
    Max(1 * Scale, next_forget_stability(d, s, r))

\* pow(0.9, t / s); 0.9 ^ 200 is below half a unit already
RetentionPow(p) == IF p > 200 * Scale THEN 0 ELSE Pow(RetentionBase, p)

\* mutant: a card without stability counts as fully remembered
retrievability_days_mut(s, e) ==
    IF s <= 0 THEN 1 * Scale ELSE RetentionPow(FDiv(e, s))
\* retrievability(s, t) for a float t, in Scale units of a day
retrievability_days(s, e) ==
    IF s <= 0 THEN 0 ELSE RetentionPow(FDiv(e, s))

\* t is a whole number of days
retrievability(s, t) == retrievability_days(s, t * Scale)

\* round(interval) where interval = (s / FACTOR) * (pow(0.9, 1 / DECAY) - 1).
\* FACTOR = 19/81 and 0.9 ^ (-2) - 1 = 19/81 cancel: the float product is
\* s * 0.9999999999999998, just below s, so round() takes the exact halves of s
\* downwards (0.5 -> 0, 2.5 -> 2, 3.5 -> 3).
RoundInterval(s) == (s + (Scale \div 2) - 1) \div Scale

\* the interval cap of the migration script's next_interval
MigrationCap == 60
\* next_interval of migrate_fsrs_fix.py
next_interval_fix(s) ==
    IF s <= 0 THEN 1 ELSE Max(1, Min(MigrationCap, RoundInterval(s)))

\* mutant: neither bound is applied
next_interval_unclamped(s) ==
    IF s <= 0 THEN 1 ELSE RoundInterval(s)
\* mutant: the cap is missing
next_interval_nocap(s) ==
    IF s <= 0 THEN 1 ELSE Max(1, RoundInterval(s))
\* mutant: the lower bound of one day is missing
next_interval_mut(s) ==
    IF s <= 0 THEN 1 ELSE Min(IntervalCap, RoundInterval(s))

next_interval(s) ==
    IF s <= 0 THEN 1 ELSE Max(1, Min(IntervalCap, RoundInterval(s)))

----------------------------------------------------------------------------
(* Grade derivation *)

\* mutant: a skip does not override correct
grade_from_attempts_mut(attempts, correct, skipped) ==
    IF ~correct THEN 1
    ELSE IF attempts = 1 THEN 4
    ELSE IF attempts = 2 THEN 3
    ELSE 2

grade_from_attempts(attempts, correct, skipped) ==
    IF skipped \/ ~correct THEN 1
    ELSE IF attempts = 1 THEN 4
    ELSE IF attempts = 2 THEN 3
    ELSE 2

----------------------------------------------------------------------------
(* Command line trainer: Card and fsrs_schedule *)

\* Card.from_word: the dataclass defaults
NewCard ==
    [difficulty |-> 0, stability |-> 0, state |-> 0, reps |-> 0, lapses |-> 0,
     last_review |-> None, due |-> None]

\* mutant: elapsed is counted from the previous review
CliElapsed_mut(c, t) ==
    IF ~IsNone(c.last_review) THEN DeltaDays(t, FromIsoFormat(Get(c.last_review))) ELSE 0
\* elapsed of fsrs_schedule: whole days since the previous due, 0 without a due
CliElapsed(c, t) ==
    IF ~IsNone(c.due) THEN DeltaDays(t, FromIsoFormat(Get(c.due))) ELSE 0

\* pow(s, -W[9]) of next_recall_stability raises ZeroDivisionError for s = 0.0
RecallRaises(stability, grade) == grade # 1 /\ stability <= 0

\* mutant: reps is not counted
Touched_mut(c, t) == [c EXCEPT !.last_review = Some(IsoFormat(t))]
\* lines 284-285: last_review and reps
Touched(c, t) == [c EXCEPT !.last_review = Some(IsoFormat(t)), !.reps = c.reps + 1]

\* lines 287-290: the first review of a new card
FirstReview(c, grade) ==
    [c EXCEPT !.difficulty = init_difficulty(grade),
              !.stability = init_stability(grade),
              !.state = IF grade < 3 THEN 1 ELSE 2]

\* mutant: a recalled card keeps its state
Reviewed_mut(c, grade, r, d) ==
    IF grade = 1
    THEN [c EXCEPT !.difficulty = d,
                   !.stability = next_forget_stability(d, c.stability, r),
                   !.lapses = c.lapses + 1,
                   !.state = 1]
    ELSE [c EXCEPT !.difficulty = d,
                   !.stability = next_recall_stability(d, c.stability, r, grade)]

\* lines 302-312: r is the retrievability, d the updated difficulty
Reviewed(c, grade, r, d) ==
    IF grade = 1
    THEN [c EXCEPT !.difficulty = d,
                   !.stability = next_forget_stability(d, c.stability, r),
                   !.lapses = c.lapses + 1,
                   !.state = 1]
    ELSE [c EXCEPT !.difficulty = d,
                   !.stability = next_recall_stability(d, c.stability, r, grade),
                   !.state = 2]

\* lines 287-312
Rescheduled(c, grade, t) ==
    IF c.state = 0 THEN FirstReview(c, grade)
    ELSE Reviewed(c, grade,
                  retrievability(c.stability, Max(0, CliElapsed(c, t))),
                  next_difficulty(c.difficulty, grade))

\* lines 314-316: the next due date
WithDue(c, t) ==
    [c EXCEPT !.due = Some(IsoFormat(PlusDays(t, next_interval(c.stability))))]

\* mutant: the interval is halved for a card that has history in memory
fsrs_schedule_mut(c, grade, t) ==
    IF c.history = <<>> THEN WithDue(Rescheduled(Touched(c, t), grade, t), t)
    ELSE [Rescheduled(Touched(c, t), grade, t) EXCEPT
             !.due = Some(IsoFormat(PlusDays(t,
                        Max(1, next_interval(Rescheduled(Touched(c, t), grade, t).stability) \div 2))))]
\* fsrs_schedule(card, grade) run at instant t
fsrs_schedule(c, grade, t) == WithDue(Rescheduled(Touched(c, t), grade, t), t)

\* mutant: a skip records no lapse of its own
SkipLapse_mut(c, skipped) == c
\* a skipped word records one more lapse
SkipLapse(c, skipped) == IF skipped THEN [c EXCEPT !.lapses = c.lapses + 1] ELSE c

\* one word of run_learning_session: grade, schedule, extra lapse of a skip
SessionCard(c, attempts, correct, skipped, t) ==
    SkipLapse(fsrs_schedule(c, grade_from_attempts(attempts, correct, skipped), t),
              skipped)

\* what the input loop of run_learning_session can produce: right at the
\* first, second or third attempt, wrong three times, or skipped (attempts
\* is then set to max_attempts)
CliOutcomes ==
    { [attempts |-> a, correct |-> TRUE, skipped |-> FALSE] : a \in 1..3 } \cup
    { [attempts |-> 3, correct |-> FALSE, skipped |-> FALSE],
      [attempts |-> 3, correct |-> FALSE, skipped |-> TRUE] }

----------------------------------------------------------------------------
(* Web server: Progress row and api_session_complete *)

\* the request body SessionComplete: attempts, correct and skipped are the
\* client's, in any combination
ServerOutcomes ==
    [attempts : 1..3, correct : BOOLEAN, skipped : BOOLEAN]

\* elapsed of api_session_complete: whole days since the row's due
RowElapsed(p, t) == IF ~IsNone(p.due) THEN DeltaDays(t, Get(p.due)) ELSE 0

\* lines 907-932: the row exists; r is the retrievability, d the new difficulty
ExistingUpdate(p, grade, skipped, r, d) ==
    [difficulty |-> d,
     stability |-> IF grade = 1 THEN next_forget_stability(d, p.stability, r)
                   ELSE next_recall_stability(d, p.stability, r, grade),
     state |-> IF grade = 1 THEN 1 ELSE 2,
     reps |-> p.reps + 1,
     lapses |-> p.lapses + (IF grade = 1 THEN 1 ELSE 0) + (IF skipped THEN 1 ELSE 0)]

\* lines 934-940: no row yet
NewUpdate(grade, correct, skipped) ==
    [difficulty |-> init_difficulty(grade),
     stability |-> init_stability(grade),
     state |-> IF grade < 3 THEN 1 ELSE 2,
     reps |-> 1,
     lapses |-> IF ~correct \/ skipped THEN 1 ELSE 0]

\* lines 904-940
Updated(row, grade, correct, skipped, t) ==
    IF ~IsNone(row)
    THEN ExistingUpdate(Get(row), grade, skipped,
                        retrievability(Get(row).stability, Max(0, RowElapsed(Get(row), t))),
                        next_difficulty(Get(row).difficulty, grade))
    ELSE NewUpdate(grade, correct, skipped)

\* lines 942-956: interval, due and the values handed to update_progress
Dated(u, t) ==
    [difficulty |-> u.difficulty, stability |-> u.stability,
     state |-> u.state, reps |-> u.reps, lapses |-> u.lapses,
     last_review |-> Some(t), due |-> Some(PlusDays(t, next_interval(u.stability)))]

\* the row written by api_session_complete(data) at instant t; row is
\* get_word_progress(...): None or the stored row
CompleteRow(row, data, t) ==
    Dated(Updated(row, grade_from_attempts(data.attempts, data.correct, data.skipped),
                  data.correct, data.skipped, t), t)

\* mutant: the row the request's session saw when it was opened, not the
\* row stored now
get_word_progress_mut(rows, seen) == seen
\* get_word_progress: the first row of the key, or None; rows are the rows the
\* table holds for the key
get_word_progress(rows, seen) == IF rows = <<>> THEN None ELSE Some(rows[1])

\* mutant: a row is inserted whether or not the key has one
update_progress_mut(rows, new) == Append(rows, new)
\* update_progress: overwrite the row get_word_progress finds for the key, or
\* insert one
update_progress(rows, new) ==
    IF rows = <<>> THEN Append(rows, new) ELSE [rows EXCEPT ![1] = new]

----------------------------------------------------------------------------
(* State machine *)

\* ev is the record of the latest operation: its inputs, the instant it ran
\* at, the card or row it found (prev; hadRow tells whether the row existed),
\* n, the number of reviews performed so far, and the elapsed days the
\* review computed (0 for a first review)
NoEvent ==
    [op |-> "none", attempts |-> 0, correct |-> FALSE, skipped |-> FALSE,
     grade |-> 0, at |-> 0, hadRow |-> FALSE, prev |-> NewCard, n |-> 0,
     elapsed |-> 0]

\* no completion request is in flight; base is the reps of the row at the start
NoRequests == [pc |-> <<>>, seen |-> <<>>, base |-> 0]
\* no selection or query has run
NoCall == [op |-> "none"]
\* no progress file, no row in a table, no conversation
NoFile == <<>>
NoRows == <<>>
NoConversation == [round |-> 0, total_rounds |-> 0]

Init ==
    /\ engine \in {"cli", "server"}
    /\ now = 0
    /\ card = NewCard
    /\ progress = None
    /\ ev = NoEvent
    /\ deck = <<>>
    /\ reqs = NoRequests
    /\ out = NoCall
    /\ file = NoFile
    /\ table = NoRows
    /\ history = NoRows
    /\ conv = NoConversation

\* the instants at which the next review of a word may happen: a new word at
\* any time of the day; a reviewed word at once (before it is due), at its due
\* instant or up to MaxLate ticks after it
ReviewTimes(due) ==
    IF IsNone(due) THEN { now + k : k \in 0..(TicksPerDay - 1) }
    ELSE {now} \cup { t \in { Get(due) + k : k \in 0..MaxLate } : t >= now }

CliDue(c) == IF IsNone(c.due) THEN None ELSE Some(FromIsoFormat(Get(c.due)))

\* run_learning_session practises the card and schedules it
CliReview ==
    /\ engine = "cli"
    /\ card.reps < MaxReps
    /\ \E o \in CliOutcomes, t \in ReviewTimes(CliDue(card)) :
         LET grade == grade_from_attempts(o.attempts, o.correct, o.skipped)
         IN  /\ ~(card.state # 0 /\ RecallRaises(card.stability, grade))
             /\ now' = t
             /\ card' = SessionCard(card, o.attempts, o.correct, o.skipped, t)
             /\ ev' = [op |-> "review", attempts |-> o.attempts, correct |-> o.correct,
                       skipped |-> o.skipped, grade |-> grade, at |-> t,
                       hadRow |-> TRUE, prev |-> card, n |-> ev.n + 1,
                       elapsed |-> IF card.state = 0 THEN 0
                                   ELSE Max(0, CliElapsed(card, t))]
    /\ UNCHANGED <<engine, progress, deck, reqs, out, file, table, history, conv>>

RowDue(row) == IF IsNone(row) THEN None ELSE Get(row).due
RowReps(row) == IF IsNone(row) THEN 0 ELSE Get(row).reps

\* POST /api/session/complete
ServerComplete ==
    /\ engine = "server"
    /\ RowReps(progress) < MaxReps
    /\ \E data \in ServerOutcomes, t \in ReviewTimes(RowDue(progress)) :
         LET grade == grade_from_attempts(data.attempts, data.correct, data.skipped)
         IN  /\ ~(~IsNone(progress) /\ RecallRaises(Get(progress).stability, grade))
             /\ now' = t
             /\ progress' = update_progress(progress, CompleteRow(progress, data, t))
             /\ ev' = [op |-> "review", attempts |-> data.attempts, correct |-> data.correct,
                       skipped |-> data.skipped, grade |-> grade, at |-> t,
                       hadRow |-> ~IsNone(progress),
                       prev |-> IF IsNone(progress) THEN NewCard ELSE Get(progress),
                       n |-> ev.n + 1,
                       elapsed |-> IF IsNone(progress) THEN 0
                                   ELSE Max(0, RowElapsed(Get(progress), t))]
    /\ UNCHANGED <<engine, card, deck, reqs, out, file, table, history, conv>>

Next == CliReview \/ ServerComplete

Spec == Init /\ [][Next]_vars

----------------------------------------------------------------------------
(* Concurrent completions of one word on the server *)

\* completion requests for the same (user, book, word)
MaxRequests == 2

\* The handler api_session_complete is a coroutine without any await: once the
\* event loop of the single uvicorn process starts its body, the body runs to
\* its end (get_word_progress, the FSRS update, update_progress with its
\* commit) before another handler runs.  Its dependencies get_db and
\* require_auth run before the body, in the thread pool.
\* reqs.pc[r] is the position of request r; reqs.seen[r] is what the table
\* held for the key when the session of request r was opened.  The word has
\* no row yet, or the row of a first review graded Good.
ConcInit ==
    /\ engine = "server"
    /\ now = 0
    /\ card = NewCard
    /\ progress \in {None,
                     Some(CompleteRow(None, [attempts |-> 2, correct |-> TRUE,
                                             skipped |-> FALSE], 0))}
    /\ ev = NoEvent
    /\ deck = <<>>
    /\ reqs = [pc |-> [r \in 1..MaxRequests |-> "idle"],
               seen |-> [r \in 1..MaxRequests |-> None],
               base |-> RowReps(progress)]
    /\ out = NoCall
    /\ file = NoFile
    /\ table = NoRows
    /\ history = NoRows
    /\ conv = NoConversation

\* the request arrives: get_db opens its session, require_auth checks the user
Accept(r) ==
    /\ engine = "server"
    /\ reqs.pc[r] = "idle"
    /\ reqs' = [reqs EXCEPT !.pc[r] = "ready", !.seen[r] = progress]
    /\ UNCHANGED <<engine, now, card, progress, ev, deck, out, file, table, history, conv>>

\* the body of api_session_complete for request r
Complete(r) ==
    /\ engine = "server"
    /\ reqs.pc[r] = "ready"
    /\ \E data \in ServerOutcomes, t \in {now, now + 1} :
         /\ now' = t
         /\ progress' = update_progress(progress,
                CompleteRow(get_word_progress(progress, reqs.seen[r]), data, t))
    /\ reqs' = [reqs EXCEPT !.pc[r] = "done"]
    /\ UNCHANGED <<engine, card, ev, deck, out, file, table, history, conv>>

ConcNext == \E r \in 1..MaxRequests : Accept(r) \/ Complete(r)

ConcSpec == ConcInit /\ [][ConcNext]_vars

----------------------------------------------------------------------------
(* Review selection: the decks *)

\* reviewed words of the largest deck
MaxWords == 90

\* reviewed words and new words of a deck
DeckSizes == {0, 3, 10, 45, MaxWords}
NewCounts == {0, 3}
\* ticks between the latest first review of the deck and the selection
SelectionDelays == {0, 7 * TicksPerDay, 30 * TicksPerDay}

Users == {1, 2}
Books == {"b1", "b2"}
\* the book of word w and the user who has reviewed it
BookOf(w) == IF w % 3 = 0 THEN "b2" ELSE "b1"
UserOf(w) == IF w % 5 = 0 THEN 2 ELSE 1
\* the outcome of the first review of word w: Easy, Good, Hard, Again in turn
OutcomeOf(w) ==
    [attempts |-> Min(3, (w % 4) + 1), correct |-> (w % 4) # 3, skipped |-> FALSE]

\* the trainer's card list: nNew new cards, then nRev cards reviewed once, one
\* per tick from instant 0 on
CliDeck(nRev, nNew) ==
    [w \in 1..(nNew + nRev) |->
        IF w <= nNew THEN NewCard
        ELSE SessionCard(NewCard, OutcomeOf(w).attempts, OutcomeOf(w).correct,
                         OutcomeOf(w).skipped, w - nNew - 1)]

\* the server's books joined with the progress table: a word has no row, or
\* the row its first review by UserOf(w) has written
ServerDeck(nRev, nNew) ==
    [w \in 1..(nNew + nRev) |->
        [book |-> BookOf(w), user |-> UserOf(w),
         row |-> IF w <= nNew THEN None
                 ELSE Some(CompleteRow(None, OutcomeOf(w), w - nNew - 1))]]

\* p.get(k, d) of a JSON object
GetOr(p, k, d) == IF k \in DOMAIN p THEN p[k] ELSE d
\* the body of apply_progress for one card: every key is read with a default
Applied(c, p) ==
    [c EXCEPT !.difficulty = GetOr(p, "difficulty", 0),
              !.stability = GetOr(p, "stability", 0),
              !.state = GetOr(p, "state", 0),
              !.reps = GetOr(p, "reps", 0),
              !.lapses = GetOr(p, "lapses", 0),
              !.last_review = GetOr(p, "last_review", None),
              !.due = GetOr(p, "due", None)]
\* apply_progress(cards, progress): progress maps words to their entries
apply_progress(cards, entries) ==
    [w \in 1..Len(cards) |->
        IF w \in DOMAIN entries THEN Applied(cards[w], entries[w]) ELSE cards[w]]

\* the entry save_progress writes for a card, without its history
Entry(c) ==
    [difficulty |-> c.difficulty, stability |-> c.stability, state |-> c.state,
     reps |-> c.reps, lapses |-> c.lapses, last_review |-> c.last_review,
     due |-> c.due]
\* a progress file some of whose entries lack keys (written by another
\* version of the trainer, or by hand): every fourth reviewed word
MissingKeys == {{}, {"stability"}, {"last_review"}, {"stability", "last_review"}}
Lacking(p, missing) == [k \in (DOMAIN p) \ missing |-> p[k]]
PartialEntries(cards, missing) ==
    [w \in { v \in 1..Len(cards) : cards[v].state # 0 /\ v % 4 = 2 } |->
        Lacking(Entry(cards[w]), missing)]
\* the card list main builds: the cards, with the entries of the file applied
LoadedDeck(cards, missing) ==
    IF missing = {} THEN cards
    ELSE apply_progress(cards, PartialEntries(cards, missing))

\* now.replace(hour=23, minute=59, second=59): the last tick of the day of t
EndOfDay(t) == (t \div TicksPerDay) * TicksPerDay + (TicksPerDay - 1)

\* len(seq[:k]) for a list of n elements
SliceLen(n, k) == IF k >= 0 THEN Min(n, k) ELSE Max(0, n + k)
\* seq[:k]
Slice(seq, k) == SubSeq(seq, 1, SliceLen(Len(seq), k))

\* (now - last_review).total_seconds() / 86400
ElapsedDays(t, last) == RDiv((t - last) * Scale, TicksPerDay)

----------------------------------------------------------------------------
(* Review selection on the server *)

\* random.randint(40, 70) and MAX_DAILY_REVIEWS
DailyTargetMin == 40
DailyTargetMax == 70
MAX_DAILY_REVIEWS == 100
\* the default of SessionStart.limit; the client may send any integer
DefaultLimit == 20
ServerLimits == {0 - 1, 0, 5, DefaultLimit}

\* the query of get_due_cards: the user's rows that are not new, of one book
\* if book_id is given
DbCandidates(d, user, book) ==
    { w \in DOMAIN d :
        /\ ~IsNone(d[w].row)
        /\ d[w].user = user
        /\ Get(d[w].row).state >= 1
        /\ (IsNone(book) \/ d[w].book = Get(book)) }

\* the (due, word) pairs of a set of rows
DueAndWord(d, ws) == { <<Get(Get(d[w].row).due), w>> : w \in ws }
WordsOf(pairs) == { p[2] : p \in pairs }

\* the rows that ORDER BY due ASC puts among the first target whatever the
\* order it gives to rows of equal due
SureFirst(pairs, target) ==
    { p \in pairs : Cardinality({ q \in pairs : q[1] <= p[1] }) <= target }
\* the rows of the due that straddles the cut: some are taken, some are not
AtCut(pairs, target) ==
    { p \in pairs :
        /\ Cardinality({ q \in pairs : q[1] < p[1] }) < target
        /\ Cardinality({ q \in pairs : q[1] <= p[1] }) > target }
\* all_cards[:target], for every order of the rows of equal due
FirstByDue(sure, cut, target) ==
    { WordsOf(sure \cup x) :
        x \in { y \in SUBSET cut : Cardinality(y) = target - Cardinality(sure) } }

\* mutant: the result is not cut at the target
DbTarget_mut(daily_target, n) == n
\* min(daily_target, MAX_DAILY_REVIEWS, len(all_cards))
DbTarget(daily_target, n) == Min(daily_target, Min(MAX_DAILY_REVIEWS, n))

DbFirst(pairs, target) ==
    FirstByDue(SureFirst(pairs, target), AtCut(pairs, target), target)

\* database.get_due_cards: the possible results as sets of words (the list
\* is shuffled before it is returned)
get_due_cards(d, user, book, daily_target) ==
    DbFirst(DueAndWord(d, DbCandidates(d, user, book)),
            DbTarget(daily_target, Cardinality(DbCandidates(d, user, book))))

\* progress_map.get(word.word) of api_session_start
ProgressOf(d, w, user) ==
    IF ~IsNone(d[w].row) /\ d[w].user = user THEN d[w].row ELSE None

\* the review branch of api_session_start for one book: the words that are
\* appended to cards
ReviewPool(d, user, book, t) ==
    { w \in DOMAIN d :
        /\ d[w].book = book
        /\ ~IsNone(ProgressOf(d, w, user))
        /\ ~IsNone(Get(ProgressOf(d, w, user)).due)
        /\ Get(Get(ProgressOf(d, w, user)).due) <= EndOfDay(t) }

\* the new branch of api_session_start: the book's words without a row, in
\* the order of the book
NewWords(d, user, book) ==
    LET NoRow(w) == d[w].book = book /\ IsNone(ProgressOf(d, w, user))
    IN  SelectSeq([w \in 1..Len(d) |-> w], NoRow)

----------------------------------------------------------------------------
(* Review selection in the trainer *)

\* limit=20 of main_menu and the 20 new words of its second choice
StudyBatch == 20
CliLimits == {0, 5, StudyBatch}

\* mutant: a reviewed card without stability or last_review gets the
\* mid-range default
get_card_retrievability_mut(c, t) ==
    IF c.state = 0 THEN 1 * Scale
    ELSE IF IsNone(c.last_review) \/ c.stability <= 0 THEN Scale \div 2
    ELSE retrievability_days(c.stability,
             Max(0, ElapsedDays(t, FromIsoFormat(Get(c.last_review)))))
\* get_card_retrievability(card) at instant t
get_card_retrievability(c, t) ==
    IF c.state = 0 \/ IsNone(c.last_review) \/ c.stability <= 0 THEN 1 * Scale
    ELSE retrievability_days(c.stability,
             Max(0, ElapsedDays(t, FromIsoFormat(Get(c.last_review)))))

\* lines 638-646: due_cards_with_r, a card being named by its position in the
\* list
DuePositions(cards, t) ==
    LET IsDue(w) == /\ cards[w].state # 0
                    /\ ~IsNone(cards[w].due)
                    /\ FromIsoFormat(Get(cards[w].due)) <= t
    IN  SelectSeq([w \in 1..Len(cards) |-> w], IsDue)
PairedWithR(cards, due, t) ==
    [k \in 1..Len(due) |-> <<due[k], get_card_retrievability(cards[due[k]], t)>>] \o <<>>
DueWithR(cards, t) == PairedWithR(cards, DuePositions(cards, t), t)

\* list.sort(key=lambda x: x[1]) is stable: the place of pair k is the number
\* of pairs of lower r, or of equal r and before it
Places(pairs) ==
    [k \in 1..Len(pairs) |->
        Cardinality({ j \in 1..Len(pairs) :
            \/ pairs[j][2] < pairs[k][2]
            \/ pairs[j][2] = pairs[k][2] /\ j < k })] \o <<>>
Placed(pairs, places) ==
    [n \in 1..Len(pairs) |->
        pairs[CHOOSE k \in 1..Len(pairs) : places[k] = n - 1]] \o <<>>
SortByR(pairs) == Placed(pairs, Places(pairs))

\* [card for card, r in due_cards_with_r]
CardsOf(pairs) == [k \in 1..Len(pairs) |-> pairs[k][1]]

\* new_cards
NewCards(cards) ==
    LET IsNew(w) == cards[w].state = 0
    IN  SelectSeq([w \in 1..Len(cards) |-> w], IsNew)

\* mutant: the slots taken by due cards are not subtracted
Remaining_mut(limit, n) == limit
\* remaining = limit - len(result)
Remaining(limit, n) == limit - n

\* lines 653-658
Filled(result, new_cards, remaining) ==
    IF remaining > 0 THEN result \o Slice(new_cards, remaining) ELSE result
Selected(due_cards, new_cards, limit) ==
    Filled(Slice(due_cards, limit), new_cards,
           Remaining(limit, Len(Slice(due_cards, limit))))

\* dictation.get_due_cards(cards, limit) at instant t, given due_cards_with_r
dictation_get_due_cards(cards, with_r, limit) ==
    Selected(CardsOf(SortByR(with_r)), NewCards(cards), limit)

----------------------------------------------------------------------------
(* Review selection: state machine *)

\* a selection reads the deck and writes nothing, so a second call in the same
\* behaviour has the results of a first one: each behaviour makes one call
Called == out.op # "none"

SelInit ==
    /\ engine \in {"cli", "server"}
    /\ \E nRev \in DeckSizes, nNew \in NewCounts, delay \in SelectionDelays :
         /\ deck \in IF engine = "cli"
                      THEN { LoadedDeck(CliDeck(nRev, nNew), missing) :
                                missing \in MissingKeys }
                      ELSE { ServerDeck(nRev, nNew) }
         /\ now = Max(0, nRev - 1) + delay
    /\ card = NewCard
    /\ progress = None
    /\ ev = NoEvent
    /\ reqs = NoRequests
    /\ out = NoCall
    /\ file = NoFile
    /\ table = NoRows
    /\ history = NoRows
    /\ conv = NoConversation

\* database.get_due_cards(db, user_id, book_id), as api_session_start (global
\* review) and the global statistics call it
DbGetDueCards ==
    /\ engine = "server"
    /\ ~Called
    /\ \E user \in Users, book \in {None} \cup { Some(b) : b \in Books },
          daily_target \in DailyTargetMin..DailyTargetMax :
         \E cards \in get_due_cards(deck, user, book, daily_target) :
            out' = [op |-> "get_due_cards", user |-> user, book |-> book,
                    target |-> daily_target, cards |-> cards]
    /\ UNCHANGED <<engine, now, card, progress, ev, deck, reqs, file, table, history, conv>>

\* POST /api/session/start, mode review with a book: the pool is shuffled and
\* its first limit words are returned
SessionStartReview ==
    /\ engine = "server"
    /\ ~Called
    /\ \E user \in Users, book \in Books, limit \in ServerLimits :
         out' = [op |-> "session_review", user |-> user, book |-> book,
                 limit |-> limit,
                 pool |-> ReviewPool(deck, user, book, now),
                 count |-> SliceLen(Cardinality(ReviewPool(deck, user, book, now)), limit)]
    /\ UNCHANGED <<engine, now, card, progress, ev, deck, reqs, file, table, history, conv>>

\* POST /api/session/start, mode new
SessionStartNew ==
    /\ engine = "server"
    /\ ~Called
    /\ \E user \in Users, book \in Books, limit \in ServerLimits :
         out' = [op |-> "session_new", user |-> user, book |-> book,
                 limit |-> limit,
                 cards |-> Slice(NewWords(deck, user, book), limit)]
    /\ UNCHANGED <<engine, now, card, progress, ev, deck, reqs, file, table, history, conv>>

\* main_menu, choice 1 (limit 20), and get_due_cards with other limits
CliGetDueCards ==
    /\ engine = "cli"
    /\ ~Called
    /\ \E limit \in CliLimits :
         out' = [op |-> "cli_get_due_cards", limit |-> limit,
                 with_r |-> DueWithR(deck, now),
                 cards |-> dictation_get_due_cards(deck, DueWithR(deck, now), limit)]
    /\ UNCHANGED <<engine, now, card, progress, ev, deck, reqs, file, table, history, conv>>

\* main_menu, choice 2
CliStudyNew ==
    /\ engine = "cli"
    /\ ~Called
    /\ out' = [op |-> "cli_study_new", cards |-> Slice(NewCards(deck), StudyBatch)]
    /\ UNCHANGED <<engine, now, card, progress, ev, deck, reqs, file, table, history, conv>>

SelNext ==
    \/ DbGetDueCards
    \/ SessionStartReview
    \/ SessionStartNew
    \/ CliGetDueCards
    \/ CliStudyNew

SelSpec == SelInit /\ [][SelNext]_vars

----------------------------------------------------------------------------
(* The pure functions next_interval and retrievability on their own *)

\* half days up to which every rounding boundary of next_interval is tried
MaxHalfDays == 8

\* stabilities: none and negative, every half day up to MaxHalfDays and the
\* two caps with the values next to them, and one far above the caps
NearHalf(h) == { (h * Scale) \div 2 + e : e \in {0 - 1, 0, 1} }
StabilityInputs ==
    {0 - Scale, 0 - 1, 0, 1, 2000 * Scale}
    \cup UNION { NearHalf(h) : h \in 1..MaxHalfDays }
    \cup UNION { NearHalf(2 * cap + h) : cap \in {MigrationCap, IntervalCap},
                                         h \in {0 - 2, 0 - 1, 0, 1, 2} }
\* elapsed times in days, as floats
ElapsedInputs == {0, 1, Scale \div 2, Scale, 10 * Scale, 400 * Scale}

\* the cards get_card_retrievability is asked about: a new card, or a card
\* reviewed once at instant 0 or 1
QueriedCards ==
    {NewCard} \cup
    { SessionCard(NewCard, o.attempts, o.correct, o.skipped, t) :
        o \in CliOutcomes, t \in 0..1 }
QueryTimes(c) ==
    IF IsNone(c.last_review) THEN 0..1
    ELSE { FromIsoFormat(Get(c.last_review)) + k : k \in {0, 1, TicksPerDay, 40 * TicksPerDay} }

FnInit ==
    /\ engine = "cli"
    /\ now = 0
    /\ card = NewCard
    /\ progress = None
    /\ ev = NoEvent
    /\ deck = <<>>
    /\ reqs = NoRequests
    /\ out = NoCall
    /\ file = NoFile
    /\ table = NoRows
    /\ history = NoRows
    /\ conv = NoConversation

\* next_interval(s) and next_interval(s2), and the migration's next_interval(s)
NextIntervalCall ==
    /\ ~Called
    /\ \E s \in StabilityInputs, s2 \in StabilityInputs :
         out' = [op |-> "next_interval", s |-> s, days |-> next_interval(s),
                 fix_days |-> next_interval_fix(s),
                 s2 |-> s2, days2 |-> next_interval(s2)]
    /\ UNCHANGED <<engine, now, card, progress, ev, deck, reqs, file, table, history, conv>>

\* retrievability(s, t)
RetrievabilityCall ==
    /\ ~Called
    /\ \E s \in StabilityInputs, t \in ElapsedInputs :
         out' = [op |-> "retrievability", s |-> s, t |-> t,
                 r |-> retrievability_days(s, t)]
    /\ UNCHANGED <<engine, now, card, progress, ev, deck, reqs, file, table, history, conv>>

\* get_card_retrievability(card) at instant t
CardRetrievabilityCall ==
    /\ ~Called
    /\ \E c \in QueriedCards : \E t \in QueryTimes(c) :
         /\ now' = t
         /\ card' = c
         /\ out' = [op |-> "get_card_retrievability",
                    r |-> get_card_retrievability(c, t)]
    /\ UNCHANGED <<engine, progress, ev, deck, reqs, file, table, history, conv>>

FnNext == NextIntervalCall \/ RetrievabilityCall \/ CardRetrievabilityCall

FnSpec == FnInit /\ [][FnNext]_vars

----------------------------------------------------------------------------
(* The stores: the server's Progress and History tables *)

\* completions of a behaviour
MaxCompletions == 2

\* the keys (user, book, word) of the tables: two users, one of them with a
\* second word
StoreKeys == { <<1, "b1", 1>>, <<2, "b1", 1>>, <<2, "b1", 2>> }
\* ticks by which a late completion comes after the previous one
LateTicks == 45 * TicksPerDay
\* the bodies of POST /api/session/complete: attempts is any integer
RequestBodies ==
    { [attempts |-> a, correct |-> TRUE, skipped |-> FALSE] : a \in {0, 1, 4} } \cup
    { [attempts |-> 3, correct |-> FALSE, skipped |-> FALSE],
      [attempts |-> 3, correct |-> FALSE, skipped |-> TRUE] }

\* the row add_history inserts
HistoryRow(key, data, grade, t) ==
    [key |-> key, time |-> t,
     result |-> IF data.skipped THEN "skipped"
                ELSE IF data.correct THEN "correct" ELSE "wrong",
     attempts |-> data.attempts, grade |-> grade]
\* the History rows of a key, oldest first
HistoryOf(rows, key) == SelectSeq(rows, LAMBDA h : h.key = key)

\* mutant: the interval is capped as in migrate_fsrs_fix.py
FixedDue_mut(row) ==
    IF ~IsNone(row.last_review) /\ row.stability > 0
    THEN [row EXCEPT !.due = Some(PlusDays(Get(row.last_review),
                                           next_interval_fix(row.stability)))]
    ELSE row
\* migrate_fix_fsrs_due: the loop body for a row the query selects, and the row
\* itself for any other row
FixedDue(row) ==
    IF ~IsNone(row.last_review) /\ row.stability > 0
    THEN [row EXCEPT !.due = Some(PlusDays(Get(row.last_review),
                                           next_interval(row.stability)))]
    ELSE row
migrate_fix_fsrs_due(t) ==
    [key \in DOMAIN t |-> [i \in 1..Len(t[key]) |-> FixedDue(t[key][i])] \o <<>>]

\* round(n / d) of Python for n >= 0 and d > 0: to the nearest, halves to even
\* (exact for the products base_interval * coeff of up to four History rows)
HalfEven(n, d) ==
    IF 2 * (n % d) > d THEN (n \div d) + 1
    ELSE IF 2 * (n % d) < d THEN n \div d
    ELSE IF (n \div d) % 2 = 0 THEN n \div d ELSE (n \div d) + 1

\* migrate_fsrs_fix.py, reconstruct_user: the state after the first History row
Replayed1(h) ==
    [difficulty |-> init_difficulty(h.grade), stability |-> init_stability(h.grade),
     state |-> IF h.grade < 3 THEN 1 ELSE 2, reps |-> 1,
     lapses |-> IF h.grade = 1 THEN 1 ELSE 0, last_review |-> h.time]
\* lines 105-123: one later History row; r is the retrievability at h.time
\* and d the new difficulty
ReplayedWith(st, h, r, d) ==
    [difficulty |-> d,
     stability |-> IF h.grade = 1 THEN next_forget_stability_fix(d, st.stability, r)
                   ELSE next_recall_stability_fix(d, st.stability, r, h.grade),
     state |-> IF h.grade = 1 THEN 1 ELSE 2, reps |-> st.reps + 1,
     lapses |-> st.lapses + (IF h.grade = 1 THEN 1 ELSE 0), last_review |-> h.time]
ReplayedNext(st, h) ==
    ReplayedWith(st, h,
                 retrievability_days(st.stability,
                                     Max(0, ElapsedDays(h.time, st.last_review))),
                 next_difficulty(st.difficulty, h.grade))
RECURSIVE Replayed(_, _)
Replayed(hs, n) ==
    IF n = 1 THEN Replayed1(hs[1]) ELSE ReplayedNext(Replayed(hs, n - 1), hs[n])

\* lines 126-136: the interval shortened by the error rate of the latest ten
\* History rows, when there are three or more
Recent(hs) == SubSeq(hs, Max(1, Len(hs) - 9), Len(hs))
Errors(hs) == Cardinality({ i \in 1..Len(hs) : hs[i].result # "correct" })
AdjustedInterval(base, n, errors) ==
    IF n >= 3 THEN Max(1, HalfEven(base * (2 * n - errors), 2 * n)) ELSE Max(1, base)

\* lines 139-147: the row rebuilt from the replayed state st
Rebuilt(st, hs) ==
    [difficulty |-> st.difficulty, stability |-> st.stability, state |-> st.state,
     reps |-> st.reps, lapses |-> st.lapses, last_review |-> Some(st.last_review),
     due |-> Some(PlusDays(st.last_review,
                 AdjustedInterval(next_interval_fix(st.stability),
                                  Len(Recent(hs)), Errors(Recent(hs)))))]
\* lines 79-148: one Progress row and the History rows of its key
Reconstructed(row, hs) ==
    IF hs = <<>>
    THEN IF row.stability # 0 /\ ~IsNone(row.due) /\ ~IsNone(row.last_review)
         THEN [row EXCEPT !.due = Some(PlusDays(Get(row.last_review),
                                                next_interval_fix(row.stability)))]
         ELSE row
    ELSE Rebuilt(Replayed(hs, Len(hs)), hs)
reconstruct_user(t, hist, user) ==
    [key \in DOMAIN t |->
        IF key[1] = user
        THEN [i \in 1..Len(t[key]) |-> Reconstructed(t[key][i], HistoryOf(hist, key))] \o <<>>
        ELSE t[key]]
\* the script: reconstruct_user for user 7, who has no row here, then for user 2
migrate_fsrs_fix(t, hist) == reconstruct_user(reconstruct_user(t, hist, 7), hist, 2)

\* who wrote the row of each key last
NoWriter == [key \in StoreKeys |-> "none"]
Writers(w, before, after, who) ==
    [key \in StoreKeys |-> IF after[key] # before[key] THEN who ELSE w[key]]

----------------------------------------------------------------------------
(* The stores: the trainer's card list and its progress file *)

\* sessions of a behaviour
MaxSessions == 2

\* the words of the book, each a unit of its own
StoreWords == {1, 2}
\* Card.from_word, with the history list of the card
from_word ==
    [difficulty |-> 0, stability |-> 0, state |-> 0, reps |-> 0, lapses |-> 0,
     last_review |-> None, due |-> None, history |-> <<>>]
\* the outcomes of a word in these sessions: right at once, wrong three times,
\* skipped
StoreOutcomes ==
    { [attempts |-> 1, correct |-> TRUE, skipped |-> FALSE],
      [attempts |-> 3, correct |-> FALSE, skipped |-> FALSE],
      [attempts |-> 3, correct |-> FALSE, skipped |-> TRUE] }

\* the record card.history.append adds
HistoryEntry(o, grade, t) ==
    [time |-> IsoFormat(t),
     result |-> IF o.skipped THEN "skipped"
                ELSE IF o.correct THEN "correct" ELSE "wrong",
     attempts |-> o.attempts, grade |-> grade]
\* lines 754-769 of run_learning_session, given the card fsrs_schedule returned
Recorded(c, o, grade, t) ==
    [SkipLapse(c, o.skipped) EXCEPT !.history = Append(c.history, HistoryEntry(o, grade, t))]
\* one word of run_learning_session with the history record
Practised(c, o, t) ==
    Recorded(fsrs_schedule(c, grade_from_attempts(o.attempts, o.correct, o.skipped), t),
             o, grade_from_attempts(o.attempts, o.correct, o.skipped), t)

\* the entry save_progress writes for a card: its state and the history of
\* the existing entry followed by the card's
SavedEntry(c, existing_history) ==
    [difficulty |-> c.difficulty, stability |-> c.stability, state |-> c.state,
     reps |-> c.reps, lapses |-> c.lapses, last_review |-> c.last_review,
     due |-> c.due, history |-> existing_history \o c.history]
\* save_progress(progress_file, session.cards): existing is the file's
\* content, session the words of the session
save_progress(existing, cards, session) ==
    [w \in { v \in session : cards[v].reps > 0 } |->
        SavedEntry(cards[w],
                   IF w \in DOMAIN existing THEN existing[w].history ELSE <<>>)]

\* the first k words of a session, in the order of the card list, and the
\* place of a word in it
FirstWords(session, k) ==
    { w \in session : Cardinality({ v \in session : v < w }) < k }
PlaceOf(session, w) == Cardinality({ v \in session : v <= w })
\* main: the cards of the book with the progress file applied
LoadedCards(entries) ==
    apply_progress([w \in 1..Cardinality(StoreWords) |-> from_word], entries)

----------------------------------------------------------------------------
(* The stores: state machine *)

\* ev records the latest operation with the stores as they were before it.
\* In the trainer it also keeps, for every word, the state its latest review
\* left (latest) and the history records of all its reviews (log); on the
\* server, who wrote the row of each key last (writer).
StoreInit ==
    /\ engine \in {"cli", "server"}
    /\ now = 0
    /\ card = NewCard
    /\ progress = None
    /\ reqs = NoRequests
    /\ out = NoCall
    /\ conv = NoConversation
    /\ file = NoFile
    /\ history = NoRows
    /\ deck = IF engine = "cli" THEN LoadedCards(NoFile) ELSE <<>>
    /\ table = IF engine = "server" THEN [key \in StoreKeys |-> NoRows] ELSE NoRows
    /\ ev = IF engine = "cli"
            THEN [op |-> "none", n |-> 0, latest |-> [w \in StoreWords |-> None],
                  log |-> [w \in StoreWords |-> <<>>]]
            ELSE [op |-> "none", n |-> 0, writer |-> NoWriter]

\* run_learning_session over the words of session, left with q after k words
\* (k = all of them: the session ends by itself), then save_progress; word w
\* is practised at instant now + its place in the session
RunLearningSession ==
    /\ engine = "cli"
    /\ ev.n < MaxSessions
    /\ \E session \in (SUBSET StoreWords) \ {{}} :
       \E k \in 0..Cardinality(session) :
       \E o \in [FirstWords(session, k) -> StoreOutcomes] :
         /\ deck' = [w \in 1..Len(deck) |->
                        IF w \in FirstWords(session, k)
                        THEN Practised(deck[w], o[w], now + PlaceOf(session, w))
                        ELSE deck[w]]
         /\ file' = save_progress(file, deck', session)
         /\ now' = now + k
         /\ ev' = [op |-> "session", n |-> ev.n + 1,
                   words |-> session, done |-> FirstWords(session, k),
                   before |-> deck, file_before |-> file, outcome |-> o,
                   at |-> [w \in FirstWords(session, k) |-> now + PlaceOf(session, w)],
                   scheduled |-> [w \in FirstWords(session, k) |->
                       fsrs_schedule(deck[w],
                           grade_from_attempts(o[w].attempts, o[w].correct, o[w].skipped),
                           now + PlaceOf(session, w))],
                   latest |-> [w \in StoreWords |->
                       IF w \in FirstWords(session, k) THEN Some(Entry(deck'[w]))
                       ELSE ev.latest[w]],
                   log |-> [w \in StoreWords |->
                       IF w \in FirstWords(session, k)
                       THEN Append(ev.log[w], deck'[w].history[Len(deck'[w].history)])
                       ELSE ev.log[w]]]
    /\ UNCHANGED <<engine, card, progress, reqs, out, table, history, conv>>

\* the trainer is left and started again: main builds the cards of the book
\* and applies the progress file
Main ==
    /\ engine = "cli"
    /\ deck' = LoadedCards(file)
    /\ ev' = [op |-> "main", n |-> ev.n, latest |-> ev.latest, log |-> ev.log]
    /\ UNCHANGED <<engine, now, card, progress, reqs, out, file, table, history, conv>>

\* POST /api/session/complete for a key; the body is not validated beyond
\* its types
ApiSessionComplete ==
    /\ engine = "server"
    /\ Len(history) < MaxCompletions
    /\ \E key \in StoreKeys, data \in RequestBodies, t \in {now + 1, now + LateTicks} :
         /\ ~(table[key] # <<>> /\
              RecallRaises(table[key][1].stability,
                  grade_from_attempts(data.attempts, data.correct, data.skipped)))
         /\ table' = [table EXCEPT ![key] =
                update_progress(@, CompleteRow(get_word_progress(@, None), data, t))]
         /\ history' = Append(history,
                HistoryRow(key, data,
                    grade_from_attempts(data.attempts, data.correct, data.skipped), t))
         /\ now' = t
         /\ ev' = [op |-> "complete", n |-> ev.n + 1, key |-> key, data |-> data,
                   grade |-> grade_from_attempts(data.attempts, data.correct, data.skipped),
                   at |-> t, before |-> table, history_before |-> history,
                   writer |-> [ev.writer EXCEPT ![key] = "complete"]]
    /\ UNCHANGED <<engine, card, progress, deck, reqs, out, file, conv>>

\* the server starts: init_db runs migrate_fix_fsrs_due
InitDb ==
    /\ engine = "server"
    /\ table' = migrate_fix_fsrs_due(table)
    /\ ev' = [op |-> "init_db", n |-> ev.n, before |-> table,
              writer_before |-> ev.writer,
              writer |-> Writers(ev.writer, table, table', "init_db")]
    /\ UNCHANGED <<engine, now, card, progress, deck, reqs, out, file, history, conv>>

\* migrate_fsrs_fix.py is run on the database
MigrateFsrsFix ==
    /\ engine = "server"
    /\ table' = migrate_fsrs_fix(table, history)
    /\ ev' = [op |-> "migrate_fsrs_fix", n |-> ev.n, before |-> table,
              writer |-> Writers(ev.writer, table, table', "migrate_fsrs_fix")]
    /\ UNCHANGED <<engine, now, card, progress, deck, reqs, out, file, history, conv>>

StoreNext ==
    \/ RunLearningSession
    \/ Main
    \/ ApiSessionComplete
    \/ InitDb
    \/ MigrateFsrsFix

StoreSpec == StoreInit /\ [][StoreNext]_vars

----------------------------------------------------------------------------
(* The guided conversation: one conversation of ConversationManager *)

\* the largest number of rounds a start request asks for
MaxRounds == 3
\* replies to the conversation that may be in progress at the same time
MaxReplies == 2

\* lengths of the word list of a start request
WordCounts == {5, 10, 20, 40}

_calculate_rounds(word_count) ==
    IF word_count < 10 THEN 3
    ELSE IF word_count < 20 THEN 5
    ELSE IF word_count < 40 THEN 7
    ELSE 10

\* total_rounds = rounds if rounds else self._calculate_rounds(word_count)
TotalRounds(rounds, word_count) ==
    IF ~IsNone(rounds) /\ Get(rounds) # 0 THEN Get(rounds)
    ELSE _calculate_rounds(word_count)

\* conv is the entry of the conversation in ConversationManager.conversations
\* (its round and total_rounds).  reqs.pc[r] is the position of reply r in
\* evaluate_response: "idle" before the call and after its return, "awaiting"
\* while it is suspended in await self._call_qwen; reqs.seen[r] is its local
\* current_round.  The handlers run on the event loop of one process, so the
\* code between two awaits is one step.
ConvInit ==
    /\ engine = "server"
    /\ now = 0
    /\ card = NewCard
    /\ progress = None
    /\ ev = [op |-> "none"]
    /\ deck = <<>>
    /\ reqs = [pc |-> [r \in 1..MaxReplies |-> "idle"],
               seen |-> [r \in 1..MaxReplies |-> 0], base |-> 0]
    /\ out = NoCall
    /\ file = NoFile
    /\ table = NoRows
    /\ history = NoRows
    /\ conv = NoConversation

\* POST /api/conversation/start: the entry is stored with round 1 once the
\* opening call of the LLM has returned
StartConversation ==
    /\ conv = NoConversation
    /\ \E rounds \in {None} \cup { Some(n) : n \in 1..MaxRounds }, word_count \in WordCounts :
         conv' = [round |-> 1, total_rounds |-> TotalRounds(rounds, word_count)]
    /\ ev' = [op |-> "start"]
    /\ UNCHANGED <<engine, now, card, progress, deck, reqs, out, file, table, history>>

\* evaluate_response up to its await: current_round is read from the entry
\* (a reply to an unknown conversation returns an error at once)
ReplyBegin(r) ==
    /\ conv # NoConversation
    /\ reqs.pc[r] = "idle"
    /\ reqs' = [reqs EXCEPT !.pc[r] = "awaiting", !.seen[r] = conv.round]
    /\ ev' = [op |-> "begin"]
    /\ UNCHANGED <<engine, now, card, progress, deck, out, file, table, history, conv>>

\* is_complete = current_round >= total_rounds, computed before the await
is_complete(current_round, total_rounds) == current_round >= total_rounds

\* evaluate_response after the LLM has answered
ReplyEnd(r) ==
    /\ reqs.pc[r] = "awaiting"
    /\ conv' = IF ~is_complete(reqs.seen[r], conv.total_rounds)
               THEN [conv EXCEPT !.round = @ + 1]
               ELSE conv
    /\ reqs' = [reqs EXCEPT !.pc[r] = "idle"]
    /\ ev' = [op |-> "reply", current_round |-> reqs.seen[r],
              is_complete |-> is_complete(reqs.seen[r], conv.total_rounds),
              before |-> conv.round]
    /\ UNCHANGED <<engine, now, card, progress, deck, out, file, table, history>>

\* the call of the LLM raises: api_conversation_reply answers with an error
\* and the entry keeps its round
ReplyFail(r) ==
    /\ reqs.pc[r] = "awaiting"
    /\ reqs' = [reqs EXCEPT !.pc[r] = "idle"]
    /\ ev' = [op |-> "error"]
    /\ UNCHANGED <<engine, now, card, progress, deck, out, file, table, history, conv>>

ConvNext ==
    \/ StartConversation
    \/ \E r \in 1..MaxReplies : ReplyBegin(r) \/ ReplyEnd(r) \/ ReplyFail(r)

ConvSpec == ConvInit /\ [][ConvNext]_vars

----------------------------------------------------------------------------
(* Views used by the properties *)

\* a Card with its two ISO strings parsed back to instants
CardView(c) ==
    [c EXCEPT !.last_review = IF IsNone(c.last_review) THEN None
                              ELSE Some(FromIsoFormat(Get(c.last_review))),
              !.due = IF IsNone(c.due) THEN None
                      ELSE Some(FromIsoFormat(Get(c.due)))]

\* the word's scheduling state now and before the latest review
Cur ==
    IF engine = "cli" THEN CardView(card)
    ELSE IF IsNone(progress) THEN NewCard ELSE Get(progress)
Prev == IF engine = "cli" THEN CardView(ev.prev) ELSE ev.prev

\* the latest operation was a review; it was the word's first review
Stepped == ev.op = "review"
FirstStep == Stepped /\ (IF engine = "cli" THEN ev.prev.state = 0 ELSE ~ev.hadRow)
LaterStep == Stepped /\ ~FirstStep

----------------------------------------------------------------------------
(* Properties *)

\* C1: a schedule step with grade Again leaves lapses = prior lapses + 1 and
\* state Learning, for a new card as for a reviewed one.
C1_AgainAddsOneLapse ==
    (Stepped /\ ev.grade = 1) =>
        (Cur.lapses = Prev.lapses + 1 /\ Cur.state = 1)

\* C2: a first review (new card, or no Progress row on the server) sets
\* difficulty = init_difficulty(grade), stability = 1, 3, 7, 14 days for
\* Again, Hard, Good, Easy, state = Learning below Good and Review from Good
\* on, and reps = 1.
C2_FirstReviewInitialises ==
    FirstStep =>
        /\ Cur.difficulty = init_difficulty(ev.grade)
        /\ Cur.difficulty = W4 - (ev.grade - 3) * W5
        /\ Cur.stability = (CASE ev.grade = 1 -> 1 [] ev.grade = 2 -> 3
                              [] ev.grade = 3 -> 7 [] ev.grade = 4 -> 14) * Scale
        /\ Cur.state = (IF ev.grade < 3 THEN 1 ELSE 2)
        /\ Cur.reps = 1
C2_Witness ==
    /\ FirstStep /\ engine = "server" /\ ~ev.hadRow
    /\ ev.grade = 2 /\ Cur.stability = 3 * Scale /\ Cur.state = 1

\* C3: a step leaves the card in Learning only if its grade is Again or it is
\* the first review with a grade other than Easy; Hard, Good and Easy on a
\* reviewed card leave it in Review; no step leaves a card New.
C3_StateTransitions ==
    Stepped =>
        /\ Cur.state = 1 => (ev.grade = 1 \/ (FirstStep /\ ev.grade # 4))
        /\ (LaterStep /\ ev.grade \in 2..4) => Cur.state = 2
        /\ Cur.state # 0
C3_Witness ==
    LaterStep /\ Prev.state = 1 /\ ev.grade = 2 /\ Cur.state = 2

\* C4: after every schedule step the difficulty lies in [1, 10].
C4_DifficultyInRange ==
    Stepped => (Cur.difficulty >= 1 * Scale /\ Cur.difficulty <= 10 * Scale)
C4_Witness ==
    LaterStep /\ ev.grade = 1 /\ Cur.difficulty = 10 * Scale /\ Prev.difficulty < 10 * Scale

\* C5: in every reachable state a card that is not New has stability > 0.
C5_StabilityPositive == Cur.state # 0 => Cur.stability > 0
C5_Witness ==
    LaterStep /\ ev.grade = 1 /\ Prev.stability < Scale /\ Cur.stability < Prev.stability

\* C6: every schedule step adds exactly 1 to reps and never lowers lapses;
\* reps is the number of reviews performed on the card.
C6_CountersGrow ==
    /\ Stepped => (Cur.reps = Prev.reps + 1 /\ Cur.lapses >= Prev.lapses)
    /\ Cur.reps = ev.n
C6_Witness == LaterStep /\ ev.n = 3 /\ Cur.lapses = Prev.lapses /\ Prev.lapses > 0

\* C7: after a schedule step at instant now, last_review = now and
\* due = now + a whole number (>= 1) of days; a card that is not New has
\* both set, with due >= last_review, and due is null only for a New card.
C7_DatesSet ==
    /\ Stepped =>
          /\ Cur.last_review = Some(ev.at)
          /\ \E n \in 1..IntervalCap : Cur.due = Some(ev.at + n * TicksPerDay)
    /\ Cur.state # 0 =>
          /\ ~IsNone(Cur.last_review) /\ ~IsNone(Cur.due)
          /\ Get(Cur.due) >= Get(Cur.last_review)
    /\ IsNone(Cur.due) => Cur.state = 0
C7_Witness ==
    /\ LaterStep /\ Cur.stability < Scale \div 2
    /\ Cur.due = Some(ev.at + TicksPerDay) /\ ev.at % TicksPerDay # 0

\* C8: for attempts in 1..3 the grade is Again if skipped or not correct
\* (a skip overrides correct), else Easy, Good, Hard for 1, 2, 3 attempts.
C8_GradeDerivation ==
    (Stepped /\ ev.attempts \in 1..3) =>
        ev.grade = (IF ev.skipped \/ ~ev.correct THEN 1
                    ELSE (CASE ev.attempts = 1 -> 4
                            [] ev.attempts = 2 -> 3
                            [] ev.attempts = 3 -> 2))
C8_Witness == Stepped /\ ev.skipped /\ ev.correct /\ ev.attempts = 1 /\ ev.grade = 1

\* C9: after the first review of a New card lapses is 1 if the grade was
\* Again and 0 otherwise, in the trainer as on the server.
C9_FirstReviewLapses ==
    FirstStep => Cur.lapses = (IF ev.grade = 1 THEN 1 ELSE 0)

\* C10: the first review of a New card sets due exactly 14, 7, 3, 1 whole
\* days after now for Easy, Good, Hard, Again.
C10_FirstDue ==
    FirstStep =>
        Cur.due = Some(ev.at + TicksPerDay *
                       (CASE ev.grade = 4 -> 14 [] ev.grade = 3 -> 7
                          [] ev.grade = 2 -> 3 [] ev.grade = 1 -> 1))
C10_Witness ==
    FirstStep /\ engine = "cli" /\ ev.grade = 4 /\ ev.at = 1
              /\ card.due = Some([date |-> 14, time |-> 1])

\* C11: when an already reviewed card is graded Again the new stability is
\* floored at 1.0: after a lapse the stability is never below one day.
C11_ForgetFloor ==
    (LaterStep /\ ev.grade = 1) => Cur.stability >= 1 * Scale

\* C12: a skip adds one lapse on top of the lapse of the schedule step: on an
\* already reviewed card a skip raises lapses by exactly 2 and an Again that
\* is not a skip by exactly 1, in the trainer as on the server; a skipped
\* first review leaves lapses = 1 in both.
C12_SkipExtraLapse ==
    /\ (LaterStep /\ ev.skipped) => Cur.lapses = Prev.lapses + 2
    /\ (LaterStep /\ ~ev.skipped /\ ev.grade = 1) => Cur.lapses = Prev.lapses + 1
    /\ (LaterStep /\ ~ev.skipped /\ ev.grade # 1) => Cur.lapses = Prev.lapses
    /\ (FirstStep /\ ev.skipped) => Cur.lapses = 1
C12_Witness ==
    /\ LaterStep /\ ev.skipped /\ Cur.lapses = Prev.lapses + 2
    /\ Prev.lapses = 1 /\ Cur.reps = 3

----------------------------------------------------------------------------
(* Properties of the review selections, checked under SelSpec *)

\* word w of the deck has been reviewed and its due is not after instant t
ReviewedAndDue(w, t) ==
    IF engine = "cli"
    THEN /\ deck[w].state # 0
         /\ ~IsNone(deck[w].due)
         /\ FromIsoFormat(Get(deck[w].due)) <= t
    ELSE /\ ~IsNone(deck[w].row)
         /\ Get(deck[w].row).state # 0
         /\ ~IsNone(Get(deck[w].row).due)
         /\ Get(Get(deck[w].row).due) <= t

\* the due candidates of a get_due_cards(user, book) call on the server
DueRows(user, book) ==
    { w \in DbCandidates(deck, user, book) : ReviewedAndDue(w, now) }
\* the retrievability of the row of word w, from its stability and the time
\* since its last review
RowR(w) ==
    retrievability_days(Get(deck[w].row).stability,
        Max(0, ElapsedDays(now, Get(Get(deck[w].row).last_review))))
\* the positions of with_r and of the returned list as sets
DuePicked == { out.cards[k] : k \in 1..Len(out.cards) } \cap
             { out.with_r[k][1] : k \in 1..Len(out.with_r) }
NewPicked == { k \in 1..Len(out.cards) : deck[out.cards[k]].state = 0 }

\* C13: every card a review selection returns (database.get_due_cards, the
\* book review of api_session_start, the due part of dictation.get_due_cards)
\* is a reviewed card whose due is no later than the end of the current day.
C13_ReviewSelectionsDue ==
    /\ out.op = "get_due_cards" =>
          \A w \in out.cards : ReviewedAndDue(w, EndOfDay(now))
    /\ out.op = "session_review" =>
          \A w \in out.pool : ReviewedAndDue(w, EndOfDay(now))
    /\ out.op = "cli_get_due_cards" =>
          \A k \in 1..Len(out.cards) :
             deck[out.cards[k]].state # 0 => ReviewedAndDue(out.cards[k], now)

\* C14: with more due candidates than the cap, the selection keeps exactly cap
\* cards, all of them due candidates and none New, and no due card left out
\* has a strictly lower retrievability than a card kept.
C14_LowestRetrievability ==
    /\ (out.op = "cli_get_due_cards" /\ Len(out.with_r) > out.limit) =>
          /\ Len(out.cards) = out.limit
          /\ Cardinality(DuePicked) = out.limit
          /\ \A i, j \in 1..Len(out.with_r) :
                (out.with_r[i][1] \in DuePicked /\ out.with_r[j][1] \notin DuePicked)
                    => out.with_r[i][2] <= out.with_r[j][2]
    /\ (out.op = "get_due_cards"
            /\ Cardinality(DueRows(out.user, out.book)) > out.target) =>
          /\ Cardinality(out.cards) = out.target
          /\ out.cards \subseteq DueRows(out.user, out.book)
          /\ \A x \in out.cards :
                \A y \in DueRows(out.user, out.book) \ out.cards : RowR(x) <= RowR(y)

\* C15: database.get_due_cards returns at most min(T, 100) cards for a daily
\* target T in 40..70, hence at most 70, all of them rows of the user (and of
\* the book if one is given); with fewer due candidates than the target it
\* returns every due candidate.
C15_DailyTarget ==
    out.op = "get_due_cards" =>
        /\ out.target \in 40..70
        /\ Cardinality(out.cards) <= Min(out.target, 100)
        /\ Cardinality(out.cards) <= 70
        /\ out.cards \subseteq DbCandidates(deck, out.user, out.book)
        /\ Cardinality(DueRows(out.user, out.book)) < out.target =>
              DueRows(out.user, out.book) \subseteq out.cards
C15_Witness ==
    /\ out.op = "get_due_cards" /\ out.book = Some("b1")
    /\ Cardinality(DbCandidates(deck, out.user, out.book)) > out.target
    /\ Cardinality(out.cards) = out.target
    /\ DueRows(out.user, out.book) # {}
    /\ Cardinality(DueRows(out.user, out.book)) < out.target

Completed == { r \in DOMAIN reqs.pc : reqs.pc[r] = "done" }

\* C17: whatever the interleaving of the completion requests of one word,
\* after k completed requests the reps of its row has grown by exactly k, and
\* the table holds at most one row for the key.
C17_NoLostUpdate ==
    /\ Len(progress) <= 1
    /\ RowReps(progress) = reqs.base + Cardinality(Completed)
C17_Witness ==
    /\ Completed = {1, 2}
    /\ ~IsNone(reqs.seen[1]) /\ reqs.seen[2] = reqs.seen[1]
    /\ RowReps(progress) = Get(reqs.seen[1]).reps + 2

----------------------------------------------------------------------------
(* Properties of the pure functions, checked under FnSpec *)

\* C18: next_interval returns a whole number of days in [1, CAP] for every
\* stability, CAP being 365 in the live engine and 60 in the migration, and 1
\* for every stability <= 0.
C18_IntervalRange ==
    out.op = "next_interval" =>
        /\ out.days \in 1..365
        /\ out.fix_days \in 1..60
        /\ out.s <= 0 => (out.days = 1 /\ out.fix_days = 1)
C18_Witness ==
    /\ out.op = "next_interval" /\ out.s > 366 * Scale
    /\ out.days = 365 /\ out.fix_days = 60

\* C19: next_interval is non-decreasing in the stability: s1 <= s2 implies
\* next_interval(s1) <= next_interval(s2).
C19_IntervalMonotone ==
    (out.op = "next_interval" /\ out.s <= out.s2) => out.days <= out.days2
C19_Witness ==
    /\ out.op = "next_interval" /\ out.s = 2500 /\ out.s2 = 2501
    /\ out.days = 2 /\ out.days2 = 3

\* C20: retrievability(s, t) lies in [0, 1] for t >= 0, is 1 for t = 0 and
\* s > 0, and 0 for s <= 0 and t > 0; get_card_retrievability is 1 for a new
\* or untouched card and for zero elapsed time.
C20_RetrievabilityRange ==
    /\ out.op = "retrievability" =>
          /\ out.r >= 0 /\ out.r <= 1 * Scale
          /\ (out.t = 0 /\ out.s > 0) => out.r = 1 * Scale
          /\ (out.s <= 0 /\ out.t > 0) => out.r = 0
    /\ out.op = "get_card_retrievability" =>
          /\ out.r >= 0 /\ out.r <= 1 * Scale
          /\ (card.state = 0 \/ IsNone(card.last_review)) => out.r = 1 * Scale
          /\ (~IsNone(card.last_review) /\ now = FromIsoFormat(Get(card.last_review)))
                => out.r = 1 * Scale
C20_Witness ==
    /\ out.op = "get_card_retrievability" /\ card.state = 2
    /\ now = FromIsoFormat(Get(card.last_review)) /\ now = 1
    /\ out.r = 1 * Scale

----------------------------------------------------------------------------
(* Properties of cards loaded from a progress file that lacks keys *)

\* the due cards of the latest selection that are flagged as reviewed and lack
\* their stability or their last_review, with the retrievability they got
Incomplete ==
    { k \in 1..Len(out.with_r) :
        LET c == deck[out.with_r[k][1]]
        IN  c.state # 0 /\ (c.stability <= 0 \/ IsNone(c.last_review)) }

\* C21: a candidate flagged as reviewed whose stability or last_review is
\* missing is ranked with the mid-range retrievability 0.5, and the selection
\* does not fail.
C21_MissingDefaultHalf ==
    out.op = "cli_get_due_cards" =>
        \A k \in Incomplete : out.with_r[k][2] = Scale \div 2

\* C21 as the code has it: such a candidate is ranked with retrievability 1.0,
\* as a card never studied, so it comes after every due card of lower
\* retrievability, and the selection returns its result.
C21_MissingDefaultOne ==
    out.op = "cli_get_due_cards" =>
        /\ \A k \in Incomplete : out.with_r[k][2] = 1 * Scale
        /\ Len(out.cards) >= Min(out.limit, Len(out.with_r))
C21_Witness ==
    /\ out.op = "cli_get_due_cards"
    /\ \E k \in Incomplete : deck[out.with_r[k][1]].stability <= 0
    /\ \E k \in Incomplete : IsNone(deck[out.with_r[k][1]].last_review)
    /\ \E k \in 1..Len(out.with_r) : out.with_r[k][2] < 1 * Scale
    /\ out.limit > 0

----------------------------------------------------------------------------
(* The two engines compared, and on-time reviews; checked under Spec *)

\* the practice outcome of the latest review
Outcome == [attempts |-> ev.attempts, correct |-> ev.correct, skipped |-> ev.skipped]
\* a scheduling state as the Card object holding it, and as the Progress row
AsCard(v) ==
    [v EXCEPT !.last_review = IF IsNone(v.last_review) THEN None
                              ELSE Some(IsoFormat(Get(v.last_review))),
              !.due = IF IsNone(v.due) THEN None ELSE Some(IsoFormat(Get(v.due)))]
AsRow(v) == IF v.state = 0 THEN None ELSE Some(v)
\* the outcome o at instant t applied to the state v by the server and by the
\* trainer
ServerPath(v, o, t) == CompleteRow(AsRow(v), o, t)
CliPath(v, o, t) == CardView(SessionCard(AsCard(v), o.attempts, o.correct, o.skipped, t))
Scheduled(v) ==
    [difficulty |-> v.difficulty, stability |-> v.stability, state |-> v.state,
     reps |-> v.reps, lapses |-> v.lapses, due |-> v.due]

\* C24: for every prior state, outcome and now the server completion and the
\* trainer's path (grade_from_attempts, fsrs_schedule, skip adjustment)
\* compute the same difficulty, stability, state, reps, lapses and due.
C24_SameAsTrainer ==
    Stepped =>
        Scheduled(ServerPath(Prev, Outcome, ev.at)) = Scheduled(CliPath(Prev, Outcome, ev.at))

\* whole days by which the latest review came after the previous due
DaysLate == Max(0, (ev.at - Get(Prev.due)) \div TicksPerDay)
\* the latest review came less than one full day after the previous due
OnTime == LaterStep /\ ev.at < Get(Prev.due) + TicksPerDay

----------------------------------------------------------------------------
(* Properties of the stores, checked under StoreSpec *)

\* the seven scheduling fields of a card, its ISO strings parsed
Seven(c) ==
    [difficulty |-> c.difficulty, stability |-> c.stability, state |-> c.state,
     reps |-> c.reps, lapses |-> c.lapses,
     last_review |-> CardView(c).last_review, due |-> CardView(c).due]
\* a card object of the same scheduling state built anew: no history and no
\* earlier call in this process
Reloaded(c) == Applied(from_word, Entry(c))
\* the stored row of a key, or None
RowOf(t, key) == IF t[key] = <<>> THEN None ELSE Some(t[key][1])
\* the grade of a request body
GradeOf(data) == grade_from_attempts(data.attempts, data.correct, data.skipped)
\* in the trainer, every scheduled card of the latest session equals the
\* result of fsrs_schedule on a card of the same state built anew
RescheduledAlike ==
    (engine = "cli" /\ ev.op = "session") =>
        \A w \in ev.done :
            Seven(ev.scheduled[w]) =
            Seven(fsrs_schedule(Reloaded(ev.before[w]), GradeOf(ev.outcome[w]), ev.at[w]))

C23_InvalidAttemptsRejected ==
    (engine = "server" /\ ev.op = "complete" /\ ev.data.attempts \notin 1..3) =>
        /\ table = ev.before
        /\ history = ev.history_before

\* C26: a server completion changes only the Progress row of its key,
\* creating it if absent, and appends exactly one History row of that key;
\* the rows of every other key are unchanged, and the reps of each Progress
\* row is the number of History rows of its key.
C26_OnlyOwnKey ==
    /\ (engine = "server" /\ ev.op = "complete") =>
          /\ \A key \in StoreKeys \ {ev.key} : table[key] = ev.before[key]
          /\ Len(table[ev.key]) = 1
          /\ Len(history) = Len(ev.history_before) + 1
          /\ SubSeq(history, 1, Len(ev.history_before)) = ev.history_before
          /\ history[Len(history)].key = ev.key
    /\ engine = "server" =>
          \A key \in StoreKeys :
             /\ Len(table[key]) <= 1
             /\ RowReps(RowOf(table, key)) = Len(HistoryOf(history, key))
C26_Witness ==
    /\ engine = "server" /\ ev.op = "complete"
    /\ ev.before[ev.key] # <<>> /\ table[ev.key][1].reps = 2
    /\ ev.key = <<2, "b1", 2>>

\* C27: saving the trainer's progress after a session never removes or alters
\* the entry of a word that was not part of the session; every word reviewed
\* in some earlier session is in the progress file with its latest state.
C27_KeepsOtherWords ==
    /\ (engine = "cli" /\ ev.op = "session") =>
          \A w \in (DOMAIN ev.file_before) \ ev.words :
             w \in DOMAIN file /\ file[w] = ev.file_before[w]
    /\ engine = "cli" =>
          \A w \in StoreWords :
             ~IsNone(ev.latest[w]) =>
                w \in DOMAIN file /\ Entry(file[w]) = Get(ev.latest[w])

\* C28: in the progress file each review outcome appears exactly once in its
\* word's history, however many times save_progress runs during one process.
C28_HistoryOnce ==
    engine = "cli" =>
        \A w \in DOMAIN file :
           \A i \in 1..Len(ev.log[w]) :
              Cardinality({ j \in 1..Len(file[w].history) :
                              file[w].history[j] = ev.log[w][i] }) = 1

\* C29: migrate_fix_fsrs_due, run at every init_db, rewrites only the due, to
\* last_review + next_interval(stability), of the rows that have a
\* last_review and stability > 0; a second run changes nothing; a row last
\* written by a server completion is unchanged.
C29_FixDueIdempotent ==
    (engine = "server" /\ ev.op = "init_db") =>
        /\ \A key \in StoreKeys :
              /\ Len(table[key]) = Len(ev.before[key])
              /\ \A i \in 1..Len(table[key]) :
                    table[key][i] =
                       IF ~IsNone(ev.before[key][i].last_review)
                          /\ ev.before[key][i].stability > 0
                       THEN [ev.before[key][i] EXCEPT !.due =
                                Some(Get(ev.before[key][i].last_review) +
                                     next_interval(ev.before[key][i].stability) * TicksPerDay)]
                       ELSE ev.before[key][i]
        /\ migrate_fix_fsrs_due(table) = table
        /\ \A key \in StoreKeys :
              ev.writer_before[key] = "complete" => table[key] = ev.before[key]
C29_Witness ==
    /\ engine = "server" /\ ev.op = "init_db"
    /\ \E key \in StoreKeys :
          /\ ev.writer_before[key] = "migrate_fsrs_fix"
          /\ Get(table[key][1].due) > Get(ev.before[key][1].due)
          /\ table[key][1].stability > MigrationCap * Scale

\* C30: for a conversation with total_rounds >= 1 the stored round stays
\* within 1..total_rounds and never decreases, also when replies overlap
\* across the call of the LLM; a reply that read the final round reports
\* is_complete and leaves the round as it found it
C30_RoundWithinTotal ==
    (engine = "server" /\ conv.total_rounds >= 1) =>
        /\ conv.round \in 1..conv.total_rounds
        /\ ev.op = "reply" =>
              /\ conv.round >= ev.before
              /\ ev.current_round >= conv.total_rounds =>
                    (ev.is_complete /\ conv.round = ev.before)

====
